---------------------------- MODULE Spec2Model ----------------------------
(***************************************************************************)
(* Model of src/app.py, the CRM analysis script.  One run of the script is *)
(* a straight line through preprocessing and the five tabs; an uncaught    *)
(* exception ends the run where it is raised.                              *)
(*                                                                         *)
(* Columns of the frame (the source's names):                              *)
(*   customer = 會員, order_id = 訂單號碼, timestamp = 訂單時間,           *)
(*   product = 品項, amount = 總價, year = 年份,                           *)
(*   annual_count = 年度總次數, visit_index = 第幾次來,                    *)
(*   idx = the frame's index label.                                        *)
(* A timestamp is a whole number of time slots; NaT is what                *)
(* pd.to_datetime(errors='coerce') leaves for an unparsable value.         *)
(***************************************************************************)
EXTENDS Integers, Sequences, FiniteSets, TLC

VARIABLES
    uploaded,                \* the concatenated upload, as read (line 60)
    df,                      \* the script's frame `df`
    selected_year,           \* the sidebar's choice (line 76)
    df_year,                 \* the copy taken at line 92
    freq_dist_display,       \* the frequency buckets (lines 113-120)
    visit_funnel,            \* the visit funnel with its rates (lines 191-196)
    magic_number,            \* line 229
    first_purchase_analysis, \* lines 246-253
    freq_table,              \* tab 2 (lines 348-350)
    product_matrix,          \* tab 3 (lines 415-440)
    executed,                \* the sections of the script that have run
    pc                       \* the script's position

vars == << uploaded, df, selected_year, df_year, freq_dist_display, visit_funnel,
           magic_number, first_purchase_analysis, freq_table, product_matrix,
           executed, pc >>

---------------------------------------------------------------------------
(* Bounds of the model and constants of the program *)

MaxRows == 2            \* rows of a small upload
MaxVisits == 11         \* orders of the first customer in a repeat-customer upload
MaxOthers == 4          \* orders of each other customer there
MaxPrior == 2           \* earlier-year orders of the first customer there
MaxPrice == 2           \* unit prices in a product upload
MaxDated == 5           \* dated orders of the first customer in an upload with unparsable rows
MaxUnparsed == 2        \* rows with an unparsable timestamp there
MaxRepeat == 4          \* orders of each new customer in an upload with a returning customer
MaxIndexed == 3         \* rows of an upload that brings its own visit-index column
SlotsPerYear == 50      \* time slots in one calendar year

FreqCap == 10           \* line 113: buckets above it are merged
FunnelCap == 10         \* line 193: visits shown in the funnel
MagicFrom == 3          \* line 228: first visit considered for the magic number
MinOrders == 5          \* line 423: a product needs that many orders

NaT == 0                \* an unparsable timestamp
NaN == 0                \* a missing year / annual count
NoProduct == "<NA>"     \* a missing product
None == 0               \* no selection, no magic number

---------------------------------------------------------------------------
(* Arithmetic and sequence helpers *)

RECURSIVE SumSeq(_)
SumSeq(s) == IF s = << >> THEN 0 ELSE Head(s) + SumSeq(Tail(s))

RECURSIVE SumFn(_)
\* the sum of the values of a function with a finite domain
SumFn(f) ==
    IF DOMAIN f = {} THEN 0
    ELSE LET x == CHOOSE x \in DOMAIN f : TRUE
         IN  f[x] + SumFn([y \in DOMAIN f \ {x} |-> f[y]])

Min(S) == CHOOSE x \in S : \A y \in S : x <= y

RECURSIVE SortedSeq(_)
\* the members of a set of integers, ascending (groupby sorts its keys)
SortedSeq(S) == IF S = {} THEN << >> ELSE << Min(S) >> \o SortedSeq(S \ {Min(S)})

Abs(x) == IF x < 0 THEN -x ELSE x

\* the rows of a frame that belong to one customer, in the frame's order
OfCustomer(frame, c) == SelectSeq(frame, LAMBDA r : r.customer = c)

\* the selection as it would be if a row without a year fell in every year
OfYearKeepingUnknown(frame, y) == SelectSeq(frame, LAMBDA r : r.year = NaN \/ r.year = y)

\* the rows of a frame that fall in one year; a NaN year equals nothing
OfYear(frame, y) == SelectSeq(frame, LAMBDA r : r.year # NaN /\ r.year = y)

Customers(frame) == { frame[i].customer : i \in DOMAIN frame }

\* Series.nunique() of the order ids of a frame
NUnique(frame) == Cardinality({ frame[i].order_id : i \in DOMAIN frame })

\* Series.sum() of the amounts of a frame
SumAmount(frame) == SumSeq([i \in DOMAIN frame |-> frame[i].amount])

\* .dt.year of a timestamp (line 66); NaN for NaT
YearOf(t) == IF t = NaT THEN NaN ELSE 1 + ((t - 1) \div SlotsPerYear)

---------------------------------------------------------------------------
(* The uploads the model runs the script on *)

RawRow(i, c, o, t, p, a) ==
    [idx |-> i, customer |-> c, order_id |-> o, timestamp |-> t, product |-> p, amount |-> a]

\* Small uploads: any rows over two customers, two orders, two years and an
\* unparsable timestamp, two products and a missing one.
SmallCells ==
    { [customer |-> c, order_id |-> o, timestamp |-> t, product |-> p, amount |-> o]
        : c \in {1, 2}, o \in {1, 2}, t \in {NaT, 1, SlotsPerYear + 1},
          p \in {NoProduct, "P", "Q"} }

SmallUpload(f) ==
    [i \in DOMAIN f |->
        RawRow(i - 1, f[i].customer, f[i].order_id, f[i].timestamp, f[i].product, f[i].amount)]

IsSmallUpload(u) ==
    \E n \in 1..MaxRows : \E f \in [1..n -> SmallCells] : u = SmallUpload(f)

\* Repeat-customer uploads: customers 1..3 with n[c] single-line orders each in
\* year 2, customer 1 with `prior` more in year 1; every row its own order and
\* its own timestamp.
RECURSIVE VisitRows(_, _, _, _)
VisitRows(c, n, prior, next) ==
    \* rows of customers c..3; next = the index label of the next row
    IF c > 3 THEN << >>
    ELSE LET before == IF c = 1 THEN prior ELSE 0
             mine == [k \in 1..(before + n[c]) |->
                        RawRow(next + k - 1, c, next + k,
                               IF k <= before THEN k ELSE SlotsPerYear + next + k,
                               "P", 1)]
         IN  mine \o VisitRows(c + 1, n, prior, next + before + n[c])

IsVisitUpload(u) ==
    \E a \in 0..MaxVisits, b \in 0..MaxOthers, c \in 0..MaxOthers, prior \in 0..MaxPrior :
        u = VisitRows(1, << a, b, c >>, prior, 0)

\* Product uploads: product x sold in k[x] orders of year 2, every order by a
\* customer of its own, at unit price a[x]; with `extra`, the first order of
\* product P has a second line item.
ProductNames == << "P", "Q", "R" >>

RECURSIVE ProductRows(_, _, _, _, _)
ProductRows(x, k, a, extra, next) ==
    IF x > Len(ProductNames) THEN << >>
    ELSE LET lines == k[x] + (IF x = 1 /\ k[x] > 0 THEN extra ELSE 0)
             mine == [j \in 1..lines |->
                        LET o == next + (IF j > k[x] THEN 1 ELSE j)
                        IN  RawRow(next + j - 1, o, o, SlotsPerYear + next + j,
                                   ProductNames[x], a[x])]
         IN  mine \o ProductRows(x + 1, k, a, extra, next + lines)

IsProductUpload(u) ==
    \E k \in [1..3 -> {MinOrders - 1, MinOrders, MinOrders + 1}],
       a \in [1..3 -> 1..MaxPrice], extra \in {0, 1} :
        u = ProductRows(1, k, a, extra, 0)

\* Uploads with unparsable rows: customer 1 with `a` single-line orders of
\* product P in year 2, customer 2 with one; before them, z rows of customer c
\* and product p whose timestamp cannot be parsed, each an order of its own or,
\* with `shared`, line items of the customer's first dated order.
UnparsedRows(a, z, c, p, shared) ==
    LET dated == IF c = 1 THEN z + 1 ELSE z + a + 1
        join  == shared = 1 /\ (c = 2 \/ a > 0)
        lost  == [j \in 1..z |->
                    RawRow(j - 1, c, IF join THEN dated ELSE j, NaT, p, 2)]
        first == [k \in 1..a |-> RawRow(z + k - 1, 1, z + k, SlotsPerYear + k, "P", 1)]
        second == << RawRow(z + a, 2, z + a + 1, SlotsPerYear + a + 1, "P", 1) >>
    IN  lost \o first \o second

IsUnparsedUpload(u) ==
    \E a \in 0..MaxDated, z \in 1..MaxUnparsed, c \in {1, 2}, p \in {"P", "Q"},
       shared \in {0, 1} :
        u = UnparsedRows(a, z, c, p, shared)

\* Uploads with a returning customer: customer 1 with one order in year 1 and
\* one in year 2, customers 2..4 with n[c] single-line orders each in year 2.
RECURSIVE RepeatRows(_, _, _)
RepeatRows(c, n, next) ==
    IF c > 4 THEN << >>
    ELSE [k \in 1..n[c] |-> RawRow(next + k - 1, c, next + k, SlotsPerYear + next + k, "P", 1)]
         \o RepeatRows(c + 1, n, next + n[c])

IsReturningUpload(u) ==
    \E n \in [2..4 -> 2..MaxRepeat] :
        u = << RawRow(0, 1, 1, 1, "P", 1), RawRow(1, 1, 2, SlotsPerYear + 2, "P", 1) >>
            \o RepeatRows(2, n, 2)

\* Uploads that bring their own 第幾次來 column: row i is order i at time slot i of
\* year 1, of customer i or of customer 1, with a visit index of 0, 1, 2 or one
\* beyond the funnel; with `lost`, the first row's timestamp cannot be parsed.
VisitValues == {0, 1, 2, FunnelCap + 1}

IndexedUpload(n, own, v, lost) ==
    [i \in 1..n |->
        [idx |-> i - 1, customer |-> IF own[i] THEN i ELSE 1, order_id |-> i,
         timestamp |-> IF lost = 1 /\ i = 1 THEN NaT ELSE i,
         product |-> "P", amount |-> 1, visit_index |-> v[i]]]

IsIndexedUpload(u) ==
    \E n \in 1..MaxIndexed :
        \E own \in [1..n -> BOOLEAN], v \in [1..n -> VisitValues], lost \in {0, 1} :
            u = IndexedUpload(n, own, v, lost)

Init ==
    /\ \/ IsSmallUpload(uploaded)
       \/ IsVisitUpload(uploaded)
       \/ IsProductUpload(uploaded)
       \/ IsUnparsedUpload(uploaded)
       \/ IsReturningUpload(uploaded)
       \/ IsIndexedUpload(uploaded)
    /\ df = uploaded
    /\ selected_year = None
    /\ df_year = << >>
    /\ freq_dist_display = << >>
    /\ visit_funnel = << >>
    /\ magic_number = None
    /\ first_purchase_analysis = << >>
    /\ freq_table = << >>
    /\ product_matrix = << >>
    /\ executed = {}
    /\ pc = "preprocess"

---------------------------------------------------------------------------
(* Lines 64-76: preprocessing and the choice of the year *)

\* the per-year count as it would be if it counted rows, not distinct orders
AnnualCountOfRows(frame, c, y) ==
    IF y = NaN THEN NaN
    ELSE Len(SelectSeq(frame, LAMBDA r : r.customer = c /\ YearOf(r.timestamp) = y))

\* df.groupby(['會員','年份'])['訂單號碼'].nunique(), merged back on both keys
\* (how='left'); groupby drops the NaN years, so those rows get NaN.
AnnualCount(frame, c, y) ==
    IF y = NaN THEN NaN
    ELSE NUnique(SelectSeq(frame, LAMBDA r : r.customer = c /\ YearOf(r.timestamp) = y))

\* '第幾次來' in df.columns (line 181)
HasVisitColumn(frame) == frame # << >> /\ "visit_index" \in DOMAIN frame[1]

\* lines 64-71: the new columns beside the uploaded ones, an uploaded 第幾次來 among them
Preprocessed(frame) ==
    [i \in DOMAIN frame |->
        IF HasVisitColumn(frame)
          THEN [idx |-> i - 1,
                customer |-> frame[i].customer, order_id |-> frame[i].order_id,
                timestamp |-> frame[i].timestamp, product |-> frame[i].product,
                amount |-> frame[i].amount,
                visit_index |-> frame[i].visit_index,
                year |-> YearOf(frame[i].timestamp),
                annual_count |-> AnnualCount(frame, frame[i].customer,
                                             YearOf(frame[i].timestamp))]
          ELSE [idx |-> i - 1,
                customer |-> frame[i].customer, order_id |-> frame[i].order_id,
                timestamp |-> frame[i].timestamp, product |-> frame[i].product,
                amount |-> frame[i].amount,
                year |-> YearOf(frame[i].timestamp),
                annual_count |-> AnnualCount(frame, frame[i].customer,
                                             YearOf(frame[i].timestamp))]]

\* sorted(df['年份'].dropna().unique())
Years(frame) == { frame[i].year : i \in DOMAIN frame } \ {NaN}

Preprocess ==
    /\ pc = "preprocess"
    /\ df' = Preprocessed(df)
    /\ IF Years(df') = {}
         THEN selected_year' = None      \* a selectbox without options returns None
         ELSE selected_year' \in Years(df')
    /\ executed' = executed \cup {"preprocess"}
    /\ pc' = "tab1_frequency"
    /\ UNCHANGED << uploaded, df_year, freq_dist_display, visit_funnel, magic_number,
                    first_purchase_analysis, freq_table, product_matrix >>

---------------------------------------------------------------------------
(* Tab 1, lines 91-120: the member distribution (frequency segmentation) *)

\* df[df['年份'] == selected_year].copy()
DfYear(frame, y) == OfYear(frame, y)

\* df_year.groupby('會員').agg({'訂單號碼': 'nunique', '總價': 'sum'})
MemberStats(dfy) ==
    [c \in Customers(dfy) |->
        [annual_count |-> NUnique(OfCustomer(dfy, c)),
         annual_spend |-> SumAmount(OfCustomer(dfy, c))]]

\* member_stats.groupby('年度總次數').agg({'會員': 'count', '年度總消費': 'sum'})
FreqDist(ms) ==
    [n \in { ms[c].annual_count : c \in DOMAIN ms } |->
        [people |-> Cardinality({ c \in DOMAIN ms : ms[c].annual_count = n }),
         revenue |-> SumFn([c \in { d \in DOMAIN ms : ms[d].annual_count = n }
                              |-> ms[c].annual_spend])]]

\* .astype(str) of a bucket's order count
Str(n) == << "0", "1", "2", "3", "4", "5", "6", "7", "8", "9", "10" >>[n + 1]

OverflowLabel == ">10"

\* the display as it would be if the rest above the cap were dropped, not merged
FreqDistDisplayWithoutOverflow(fd) ==
    LET exact == SortedSeq({ n \in DOMAIN fd : n <= FreqCap })
    IN  [i \in DOMAIN exact |->
            [bucket |-> Str(exact[i]), people |-> fd[exact[i]].people,
             revenue |-> fd[exact[i]].revenue]]

\* lines 113-120: the buckets up to the cap, then one bucket for the rest
FreqDistDisplay(fd) ==
    LET exact == SortedSeq({ n \in DOMAIN fd : n <= FreqCap })
        over  == { n \in DOMAIN fd : n > FreqCap }
        shown == [i \in DOMAIN exact |->
                    [bucket |-> Str(exact[i]), people |-> fd[exact[i]].people,
                     revenue |-> fd[exact[i]].revenue]]
    IN  IF over = {} THEN shown
        ELSE Append(shown,
                    [bucket |-> OverflowLabel,
                     people |-> SumFn([n \in over |-> fd[n].people]),
                     revenue |-> SumFn([n \in over |-> fd[n].revenue])])

Tab1Frequency ==
    /\ pc = "tab1_frequency"
    /\ df_year' = DfYear(df, selected_year)
    /\ freq_dist_display' = FreqDistDisplay(FreqDist(MemberStats(df_year')))
    /\ executed' = executed \cup {"frequency"}
    /\ pc' = "tab1_insight"
    /\ UNCHANGED << uploaded, df, selected_year, visit_funnel, magic_number,
                    first_purchase_analysis, freq_table, product_matrix >>

\* line 153: the rows of the display whose bucket reads '1'
OneTimerRows(display) == SelectSeq(display, LAMBDA b : b.bucket = "1")

\* lines 152-172: .iloc[0] of an empty selection raises IndexError, which ends the run
Tab1Insight ==
    /\ pc = "tab1_insight"
    /\ IF OneTimerRows(freq_dist_display) = << >>
         THEN /\ pc' = "error"
              /\ UNCHANGED executed
         ELSE /\ pc' = "tab1_retention"
              /\ executed' = executed \cup {"insight"}
    /\ UNCHANGED << uploaded, df, selected_year, df_year, freq_dist_display, visit_funnel,
                    magic_number, first_purchase_analysis, freq_table, product_matrix >>

---------------------------------------------------------------------------
(* Tab 1, lines 176-229: the visit funnel and the magic number *)

\* the positions of a sequence of integer keys in ascending key order, equal keys
\* in their order of appearance (a stable sort)
RECURSIVE ArgsortFrom(_, _)
ArgsortFrom(keys, todo) ==
    IF todo = {} THEN << >>
    ELSE LET i == CHOOSE i \in todo :
                    \A j \in todo : keys[i] < keys[j] \/ (keys[i] = keys[j] /\ i <= j)
         IN  << i >> \o ArgsortFrom(keys, todo \ {i})

Take(frame, positions) == [k \in DOMAIN positions |-> frame[positions[k]]]

NotNaT(frame) == SelectSeq(frame, LAMBDA r : r.timestamp # NaT)
IsNaT(frame) == SelectSeq(frame, LAMBDA r : r.timestamp = NaT)

\* a stable sort by timestamp, NaT last
StableByTime(frame) ==
    LET known == NotNaT(frame)
    IN  Take(known, ArgsortFrom([i \in DOMAIN known |-> known[i].timestamp], DOMAIN known))
        \o IsNaT(frame)

\* df.sort_values(['會員', '訂單時間']): a lexical sort, which is stable; it equals
\* a stable sort by the last key followed by a stable sort by the first
SortByCustomerTime(frame) ==
    LET byTime == StableByTime(frame)
    IN  Take(byTime, ArgsortFrom([i \in DOMAIN byTime |-> byTime[i].customer], DOMAIN byTime))

\* groupby('會員').cumcount() + 1: the row's rank among the rows of its customer
CumCount(frame, i) ==
    Cardinality({ j \in 1..(i - 1) : frame[j].customer = frame[i].customer })

\* lines 185-187: the sorted frame with its new column, which replaces df
WithVisitIndex(frame) ==
    LET s == SortByCustomerTime(frame)
    IN  [i \in DOMAIN s |->
            [idx |-> s[i].idx, customer |-> s[i].customer, order_id |-> s[i].order_id,
             timestamp |-> s[i].timestamp, product |-> s[i].product,
             amount |-> s[i].amount, year |-> s[i].year,
             annual_count |-> s[i].annual_count,
             visit_index |-> CumCount(s, i) + 1]]

\* Line 196 computes in float64.  A double of this model is kept exactly, as the
\* natural number of units of 2^-FractionBits it holds, written in limbs of
\* LimbBits bits, least significant first, without leading zero limbs; every
\* double met here is zero or at least 2^-16 and so a whole number of units.
LimbBits == 15
Limb == 32768           \* 2^LimbBits
MantissaBits == 53      \* significant bits of a float64
FractionBits == 72

RECURSIVE BigOfInt(_)
BigOfInt(n) == IF n = 0 THEN << >> ELSE << n % Limb >> \o BigOfInt(n \div Limb)

RECURSIVE IntOfBig(_)
IntOfBig(x) == IF x = << >> THEN 0 ELSE Head(x) + Limb * IntOfBig(Tail(x))

RECURSIVE BigTimesSmall(_, _, _)
\* x * k + carry, for 0 <= k <= Limb
BigTimesSmall(x, k, carry) ==
    IF x = << >> THEN BigOfInt(carry)
    ELSE LET p == Head(x) * k + carry
         IN  << p % Limb >> \o BigTimesSmall(Tail(x), k, p \div Limb)

RECURSIVE BigDivSmall(_, _)
\* quotient and remainder of x by k, for 0 < k < 2 * Limb
BigDivSmall(x, k) ==
    IF x = << >> THEN [q |-> << >>, r |-> 0]
    ELSE LET high == BigDivSmall(Tail(x), k)
             cur  == high.r * Limb + Head(x)
         IN  [q |-> IF high.q = << >> /\ cur < k THEN << >>
                    ELSE << cur \div k >> \o high.q,
              r |-> cur % k]

RECURSIVE SmallBits(_)
SmallBits(n) == IF n = 0 THEN 0 ELSE 1 + SmallBits(n \div 2)

\* the number of significant bits of x
BitLength(x) == IF x = << >> THEN 0 ELSE LimbBits * (Len(x) - 1) + SmallBits(x[Len(x)])

\* x * 2^s
ShiftLeft(x, s) ==
    IF x = << >> THEN << >>
    ELSE [i \in 1..(s \div LimbBits) |-> 0] \o BigTimesSmall(x, 2 ^ (s % LimbBits), 0)

\* x \div 2^s, and whether a set bit was shifted out
ShiftRight(x, s) ==
    LET whole == s \div LimbBits
        low   == SubSeq(x, 1, IF whole < Len(x) THEN whole ELSE Len(x))
        d     == BigDivSmall(SubSeq(x, whole + 1, Len(x)), 2 ^ (s % LimbBits))
    IN  [q |-> d.q, lost |-> d.r # 0 \/ \E i \in DOMAIN low : low[i] # 0]

RECURSIVE BigLessFrom(_, _, _)
BigLessFrom(x, y, i) ==
    IF i = 0 THEN FALSE
    ELSE IF x[i] # y[i] THEN x[i] < y[i]
    ELSE BigLessFrom(x, y, i - 1)

\* x < y
BigLess(x, y) ==
    IF Len(x) # Len(y) THEN Len(x) < Len(y) ELSE BigLessFrom(x, y, Len(x))

RECURSIVE BigMinusFrom(_, _, _, _)
BigMinusFrom(x, y, i, borrow) ==
    IF i > Len(x) THEN << >>
    ELSE LET d == x[i] - (IF i <= Len(y) THEN y[i] ELSE 0) - borrow
         IN  << d % Limb >> \o BigMinusFrom(x, y, i + 1, IF d < 0 THEN 1 ELSE 0)

RECURSIVE Trimmed(_)
Trimmed(x) ==
    IF x = << >> \/ x[Len(x)] # 0 THEN x ELSE Trimmed(SubSeq(x, 1, Len(x) - 1))

\* x - y, for y <= x
BigMinus(x, y) == Trimmed(BigMinusFrom(x, y, 1, 0))

\* the nearest value of MantissaBits significant bits, ties to the even one
\* (IEEE 754 round to nearest even); `inexact`: x stands for a little more than x
RoundToDouble(x, inexact) ==
    IF BitLength(x) <= MantissaBits THEN x
    ELSE LET s     == BitLength(x) - MantissaBits
             y     == ShiftRight(x, s - 1)
             half  == y.q[1] % 2 = 1
             q     == ShiftRight(y.q, 1).q
             above == y.lost \/ inexact
             up    == half /\ (above \/ q[1] % 2 = 1)
         IN  ShiftLeft(IF up THEN BigTimesSmall(q, 1, 1) ELSE q, s)

\* int64 / int64 -> float64, for 0 < base < 2 * Limb
DoubleDiv(count, base) ==
    LET d == BigDivSmall(ShiftLeft(BigOfInt(count), FractionBits), base)
    IN  RoundToDouble(d.q, d.r # 0)

\* float64 * a small whole number
DoubleTimes(x, k) == RoundToDouble(BigTimesSmall(x, k, 0), FALSE)

\* abs(x - y) in float64
DoubleAbsDiff(x, y) ==
    RoundToDouble(IF BigLess(x, y) THEN BigMinus(y, x) ELSE BigMinus(x, y), FALSE)

\* numpy.rint: the nearest whole number, ties to the even one
Rint(x) ==
    LET y    == ShiftRight(x, FractionBits - 1)
        half == y.q # << >> /\ y.q[1] % 2 = 1
        q    == IntOfBig(ShiftRight(y.q, 1).q)
    IN  IF half /\ (y.lost \/ q % 2 = 1) THEN q + 1 ELSE q

\* line 196 as float64 computes it: (count / base * 100).round(1), where round(1)
\* is rint(x * 10) / 10; the result in tenths of a percent, that is the whole
\* number rint returns
RateInDoubles(count, base) ==
    Rint(DoubleTimes(DoubleTimes(DoubleDiv(count, base), 100), 10))

\* Line 196.  The three float64 operations before rint are off the exact value
\* 1000 * count / base by less than 2^-50 of it, and an exact value that is not
\* half-way between two whole numbers is at least 1 / (2 * base) away from
\* half-way; so, for every count below 2^31, rint returns the whole number
\* nearest to the exact value unless the exact value is half-way, and only then
\* do the doubles decide.
Rate(count, base) ==
    LET q == (count * 1000) \div base
        r == (count * 1000) % base
    IN  IF 2 * r = base THEN RateInDoubles(count, base)
        ELSE IF 2 * r > base THEN q + 1
        ELSE q

\* the float64 a rate in tenths of a percent is stored as: rint(x * 10) / 10
RateValue(tenths) == DoubleDiv(tenths, 10)

\* lines 191-193: customers per visit index among the year's rows, for every
\* index up to 10; an uploaded index below 1 stays in
FunnelCounts(frame, y) ==
    LET rows == OfYear(frame, y)
        ks   == SortedSeq({ k \in { rows[i].visit_index : i \in DOMAIN rows } :
                              k <= FunnelCap })
    IN  [i \in DOMAIN ks |->
            [visit_index |-> ks[i],
             customers |-> Cardinality(Customers(
                               SelectSeq(rows, LAMBDA r : r.visit_index = ks[i])))]]

\* the rates as they would be if the funnel's last row were the denominator
WithRatesOverLastRow(funnel) ==
    [i \in DOMAIN funnel |->
        [visit_index |-> funnel[i].visit_index, customers |-> funnel[i].customers,
         rate |-> Rate(funnel[i].customers, funnel[Len(funnel)].customers)]]

\* line 196: every count over the count of the funnel's first row
WithRates(funnel) ==
    [i \in DOMAIN funnel |->
        [visit_index |-> funnel[i].visit_index, customers |-> funnel[i].customers,
         rate |-> Rate(funnel[i].customers, funnel[1].customers)]]

\* lines 181-188: an uploaded 第幾次來 column is used as it is and df is kept;
\* without one, df becomes the sorted copy with the computed column
RetentionFrame(frame) ==
    IF HasVisitColumn(frame) THEN frame ELSE WithVisitIndex(frame)

\* lines 180-196; .iloc[0] of an empty funnel raises IndexError, after df was
\* replaced if it was
Tab1Retention ==
    /\ pc = "tab1_retention"
    /\ df' = RetentionFrame(df)
    /\ LET counts == FunnelCounts(df', selected_year)
       IN  IF counts = << >>
             THEN /\ visit_funnel' = counts
                  /\ pc' = "error"
                  /\ UNCHANGED executed
             ELSE /\ visit_funnel' = WithRates(counts)
                  /\ pc' = "tab1_magic"
                  /\ executed' = executed \cup {"retention"}
    /\ UNCHANGED << uploaded, selected_year, df_year, freq_dist_display, magic_number,
                    first_purchase_analysis, freq_table, product_matrix >>

\* the missing decline of the funnel's first row
NoDecline == << -1 >>

\* line 227: .diff().abs() of the rates, in float64; the first row has none
Decline(funnel, i) ==
    IF i = 1 THEN NoDecline
    ELSE DoubleAbsDiff(RateValue(funnel[i].rate), RateValue(funnel[i - 1].rate))

\* line 227: the funnel with its new column
WithDeclines(funnel) ==
    [i \in DOMAIN funnel |->
        [visit_index |-> funnel[i].visit_index, customers |-> funnel[i].customers,
         rate |-> funnel[i].rate, decline |-> Decline(funnel, i)]]

\* Series.idxmin(): the first position that holds the smallest value
IdxMin(funnel, candidates) ==
    CHOOSE i \in candidates :
        \A j \in candidates :
            BigLess(funnel[i].decline, funnel[j].decline)
            \/ (funnel[i].decline = funnel[j].decline /\ i <= j)

\* line 228: the rows idxmin chooses among, those of a visit index of 3 or more;
\* idxmin skips the missing decline
Candidates(funnel) ==
    { i \in DOMAIN funnel : /\ funnel[i].visit_index >= MagicFrom
                            /\ funnel[i].decline # NoDecline }

\* lines 228-229, on a funnel with its declines and a row to choose
MagicNumber(funnel) == funnel[IdxMin(funnel, Candidates(funnel))].visit_index

\* lines 226-229; idxmin of an empty selection raises ValueError, after line 227
\* added the column
Tab1Magic ==
    /\ pc = "tab1_magic"
    /\ IF Len(visit_funnel) > 2
         THEN /\ visit_funnel' = WithDeclines(visit_funnel)
              /\ IF Candidates(visit_funnel') = {}
                    THEN /\ pc' = "error"
                         /\ UNCHANGED << magic_number, executed >>
                    ELSE /\ magic_number' = MagicNumber(visit_funnel')
                         /\ executed' = executed \cup {"magic"}
                         /\ pc' = "tab1_first_purchase"
         ELSE /\ UNCHANGED << visit_funnel, magic_number >>
              /\ executed' = executed \cup {"magic"}
              /\ pc' = "tab1_first_purchase"
    /\ UNCHANGED << uploaded, df, selected_year, df_year, freq_dist_display,
                    first_purchase_analysis, freq_table, product_matrix >>

---------------------------------------------------------------------------
(* Tab 1, lines 241-253: the first purchase of every customer *)

\* df.sort_values('訂單時間') sorts one column with the default kind, quicksort,
\* which is not stable: rows with equal timestamps come out in any order; the
\* NaT rows follow in the frame's order.  The set of all orders it may return,
\* as sequences of positions.
RECURSIVE TieOrders(_, _)
TieOrders(keys, todo) ==
    IF todo = {} THEN { << >> }
    ELSE LET least == { i \in todo : \A j \in todo : keys[i] <= keys[j] }
         IN  UNION { { << i >> \o rest : rest \in TieOrders(keys, todo \ {i}) } : i \in least }

SortByTimeOutcomes(frame) ==
    LET known == NotNaT(frame)
    IN  { Take(known, order) \o IsNaT(frame) :
            order \in TieOrders([i \in DOMAIN known |-> known[i].timestamp], DOMAIN known) }

\* GroupBy.first() of a column: the first value that is not missing, else missing
FirstValid(products) ==
    LET valid == SelectSeq(products, LAMBDA p : p # NoProduct)
    IN  IF valid = << >> THEN NoProduct ELSE Head(valid)

\* .groupby('會員').first()['品項']
FirstPurchase(sorted) ==
    [c \in Customers(sorted) |->
        LET mine == OfCustomer(sorted, c)
        IN  FirstValid([i \in DOMAIN mine |-> mine[i].product])]

\* df.groupby('會員')['訂單號碼'].nunique()
LifetimeFreq(frame) == [c \in Customers(frame) |-> NUnique(OfCustomer(frame, c))]

\* first_purchase[['會員', '品項']].merge(lifetime_freq, on='會員')
FirstPurchaseAnalysis(first, lifetime) ==
    [c \in DOMAIN first \cap DOMAIN lifetime |->
        [product |-> first[c], lifetime_count |-> lifetime[c]]]

\* lines 245-253; the frame has no 客群狀態 column, so line 340 only warns
Tab1FirstPurchase ==
    /\ pc = "tab1_first_purchase"
    /\ \E sorted \in SortByTimeOutcomes(df) :
          first_purchase_analysis' = FirstPurchaseAnalysis(FirstPurchase(sorted), LifetimeFreq(df))
    /\ executed' = executed \cup {"first_purchase"}
    /\ pc' = "tab2"
    /\ UNCHANGED << uploaded, df, selected_year, df_year, freq_dist_display, visit_funnel,
                    magic_number, freq_table, product_matrix >>

---------------------------------------------------------------------------
(* Tab 2, lines 342-407: the stickiness table *)

\* df_year.groupby('年度總次數')['會員'].nunique()
FreqTable(dfy) ==
    [n \in { dfy[i].annual_count : i \in DOMAIN dfy } |->
        Cardinality(Customers(SelectSeq(dfy, LAMBDA r : r.annual_count = n)))]

\* Lines 348-368.  Line 368 writes the label '>5' into the numeric column of
\* the order counts, under a mask.  What that does to a table with a row depends
\* on the pandas release: either the run goes on (the column turned into objects
\* where the mask selects a row), or the label is refused for the column's type
\* whatever the mask selects, and TypeError ends the run.
Tab2 ==
    /\ pc = "tab2"
    /\ freq_table' = FreqTable(df_year)
    /\ \/ /\ pc' = "tab3"
          /\ executed' = executed \cup {"tab2"}
       \/ /\ DOMAIN freq_table' # {}
          /\ pc' = "error"
          /\ UNCHANGED executed
    /\ UNCHANGED << uploaded, df, selected_year, df_year, freq_dist_display, visit_funnel,
                    magic_number, first_purchase_analysis, product_matrix >>

---------------------------------------------------------------------------
(* Tab 3, lines 409-440: the product matrix *)

\* df_year.groupby('品項').agg({'訂單號碼': 'nunique', '總價': 'sum'}); groupby
\* drops the rows without a product
ProductStats(dfy) ==
    [p \in { dfy[i].product : i \in DOMAIN dfy } \ {NoProduct} |->
        LET rows == SelectSeq(dfy, LAMBDA r : r.product = p)
        IN  [orders |-> NUnique(rows), revenue |-> SumAmount(rows)]]

\* line 423
EnoughOrders(stats) == { p \in DOMAIN stats : stats[p].orders >= MinOrders }

\* twice the median of a function's values (twice, to stay in the integers):
\* the middle value, or the mean of the two middle values
Median2(f) ==
    LET ps     == CHOOSE q \in [1..Cardinality(DOMAIN f) -> DOMAIN f] :
                      \A i, j \in DOMAIN q : i # j => q[i] # q[j]
        vals   == [i \in DOMAIN ps |-> f[ps[i]]]
        sorted == Take(vals, ArgsortFrom(vals, DOMAIN vals))
        n      == Len(sorted)
    IN  IF n % 2 = 1 THEN 2 * sorted[(n + 1) \div 2]
        ELSE sorted[n \div 2] + sorted[(n \div 2) + 1]

\* lines 430-438, with both medians doubled
classify_product(orders, revenue, median_orders2, median_revenue2) ==
    IF 2 * orders >= median_orders2 /\ 2 * revenue >= median_revenue2 THEN "star"
    ELSE IF 2 * orders >= median_orders2 /\ 2 * revenue < median_revenue2 THEN "traffic_driver"
    ELSE IF 2 * orders < median_orders2 /\ 2 * revenue >= median_revenue2 THEN "high_value_niche"
    ELSE "low_performer"

\* the matrix as it would be if the medians were taken before the filter
ProductMatrixMediansBeforeFilter(dfy) ==
    LET stats == ProductStats(dfy)
        kept  == EnoughOrders(stats)
        median_orders2  == Median2([p \in DOMAIN stats |-> stats[p].orders])
        median_revenue2 == Median2([p \in DOMAIN stats |-> stats[p].revenue])
    IN  [p \in kept |->
            [orders |-> stats[p].orders, revenue |-> stats[p].revenue,
             class |-> classify_product(stats[p].orders, stats[p].revenue,
                                        median_orders2, median_revenue2)]]

\* lines 415-440: the statistics, the filter, then the medians of what is left
ProductMatrix(dfy) ==
    LET stats == ProductStats(dfy)
        kept  == EnoughOrders(stats)
        median_orders2  == Median2([p \in kept |-> stats[p].orders])
        median_revenue2 == Median2([p \in kept |-> stats[p].revenue])
    IN  [p \in kept |->
            [orders |-> stats[p].orders, revenue |-> stats[p].revenue,
             class |-> classify_product(stats[p].orders, stats[p].revenue,
                                        median_orders2, median_revenue2)]]

\* Lines 415-440.  With no product left after the filter, what line 440 does
\* depends on the pandas release: apply(axis=1) of an empty frame returns either
\* an empty column, and the run goes on with an empty matrix, or an empty frame,
\* and setting it as one column raises ValueError.
Tab3 ==
    /\ pc = "tab3"
    /\ \/ /\ product_matrix' = ProductMatrix(df_year)
          /\ pc' = "tab4"
          /\ executed' = executed \cup {"tab3"}
       \/ /\ EnoughOrders(ProductStats(df_year)) = {}
          /\ pc' = "error"
          /\ UNCHANGED << product_matrix, executed >>
    /\ UNCHANGED << uploaded, df, selected_year, df_year, freq_dist_display, visit_funnel,
                    magic_number, first_purchase_analysis, freq_table >>

---------------------------------------------------------------------------
(* Tabs 4 and 5, lines 489-634: the frame has none of the optional columns
   客群狀態, 分類, 銷售方案, so each tab only shows its warning *)

Tab4 ==
    /\ pc = "tab4"
    /\ executed' = executed \cup {"tab4"}
    /\ pc' = "tab5"
    /\ UNCHANGED << uploaded, df, selected_year, df_year, freq_dist_display, visit_funnel,
                    magic_number, first_purchase_analysis, freq_table, product_matrix >>

Tab5 ==
    /\ pc = "tab5"
    /\ executed' = executed \cup {"tab5"}
    /\ pc' = "done"
    /\ UNCHANGED << uploaded, df, selected_year, df_year, freq_dist_display, visit_funnel,
                    magic_number, first_purchase_analysis, freq_table, product_matrix >>

Next ==
    \/ Preprocess
    \/ Tab1Frequency
    \/ Tab1Insight
    \/ Tab1Retention
    \/ Tab1Magic
    \/ Tab1FirstPurchase
    \/ Tab2
    \/ Tab3
    \/ Tab4
    \/ Tab5

Spec == Init /\ [][Next]_vars

---------------------------------------------------------------------------
(* Properties.  They are stated over the upload as read, not over the script's
   intermediate frames. *)

\* the positions of the upload's rows that fall in the selected year
PeriodRows ==
    { i \in DOMAIN uploaded :
        uploaded[i].timestamp # NaT /\ YearOf(uploaded[i].timestamp) = selected_year }

PeriodCustomers == { uploaded[i].customer : i \in PeriodRows }

PeriodRevenue == SumFn([i \in PeriodRows |-> uploaded[i].amount])

\* C1: the frequency buckets (the exact buckets and the '>10' bucket) conserve
\* totals: their customer counts add up to the number of distinct customers with
\* a row in the selected year, their revenues to the sum of the year's amounts.
C1_BucketsConserveTotals ==
    "frequency" \in executed =>
        /\ SumSeq([i \in DOMAIN freq_dist_display |-> freq_dist_display[i].people])
             = Cardinality(PeriodCustomers)
        /\ SumSeq([i \in DOMAIN freq_dist_display |-> freq_dist_display[i].revenue])
             = PeriodRevenue

\* C1's case: the overflow bucket beside an exact bucket of several customers
C1_Witness ==
    /\ "frequency" \in executed
    /\ Len(freq_dist_display) >= 2
    /\ freq_dist_display[Len(freq_dist_display)].bucket = OverflowLabel
    /\ \E i \in DOMAIN freq_dist_display : freq_dist_display[i].people >= 2

\* the frame carries the visit_index column (the retention step has replaced df)
\* the retention analysis has fixed the visit index of the dataset's rows
HasVisitIndex ==
    /\ "insight" \in executed /\ pc # "tab1_retention"
    /\ df # << >> /\ "visit_index" \in DOMAIN df[1]

\* the positions of the upload's rows of one customer, earliest first: by
\* timestamp, NaT last, equal timestamps in input order
TimeOrder(c) ==
    LET mine == SelectSeq(uploaded, LAMBDA r : r.customer = c)
    IN  StableByTime(mine)

\* the rank of an order among a customer's distinct orders, by each order's
\* earliest row
OrderRank(c, o) ==
    LET seq   == TimeOrder(c)
        first(x) == Min({ i \in DOMAIN seq : seq[i].order_id = x })
    IN  Cardinality({ seq[i].order_id : i \in { j \in DOMAIN seq : first(seq[j].order_id) <= first(o) } })

\* C2: visit_index counts orders, not line items: a row carries the rank of its
\* order among its customer's distinct orders, so the rows of one order agree
\* and a customer's largest visit_index is the number of that customer's orders.
C2_VisitIndexPerOrder ==
    HasVisitIndex =>
        \A i \in DOMAIN df : df[i].visit_index = OrderRank(df[i].customer, df[i].order_id)

\* the number of distinct customers whose k-th visit falls in the selected year
VisitCount(k) ==
    Cardinality({ df[i].customer : i \in { j \in DOMAIN df :
        df[j].year # NaN /\ df[j].year = selected_year /\ df[j].visit_index = k } })

\* C3: every survival rate is count(k) / count(1), and without a customer at
\* visit 1 in the year the computation fails instead of taking another baseline.
C3_BaselineIsFirstVisit ==
    HasVisitIndex =>
        /\ VisitCount(1) = 0 => (pc = "error" /\ "retention" \notin executed)
        /\ VisitCount(1) > 0 =>
             \A i \in DOMAIN visit_funnel :
                 visit_funnel[i].rate = Rate(VisitCount(visit_funnel[i].visit_index), VisitCount(1))

\* the rows of the funnel from visit 3 on that have a previous row to decline from
MagicCandidates == { i \in 2..Len(visit_funnel) : visit_funnel[i].visit_index >= MagicFrom }

FunnelDecline(i) == Abs(visit_funnel[i].rate - visit_funnel[i - 1].rate)

\* C4: the magic number is a visit index >= 3 of the funnel whose decline from
\* the previous row is the least among the visit indices >= 3, and the smallest
\* of those when several share the least decline.
C4_MagicNumberIsFirstFlattest ==
    ("magic" \in executed /\ Len(visit_funnel) > 2) =>
        \E m \in MagicCandidates :
            /\ visit_funnel[m].visit_index = magic_number
            /\ \A j \in MagicCandidates :
                  /\ FunnelDecline(m) <= FunnelDecline(j)
                  /\ FunnelDecline(m) = FunnelDecline(j)
                        => magic_number <= visit_funnel[j].visit_index

\* the products of the selected year with their distinct orders and revenue
PeriodProducts == { uploaded[i].product : i \in PeriodRows } \ {NoProduct}

OrdersOf(p) == Cardinality({ uploaded[i].order_id : i \in { j \in PeriodRows : uploaded[j].product = p } })

RevenueOf(p) == SumFn([i \in { j \in PeriodRows : uploaded[j].product = p } |-> uploaded[i].amount])

Surviving == { p \in PeriodProducts : OrdersOf(p) >= MinOrders }

\* a value is at or above the median of the surviving products' values when
\* more than half of them are at or below it; it is above the median when at
\* least half of them are below it
AtOrAboveMedian(v, Value(_)) ==
    2 * Cardinality({ q \in Surviving : Value(q) <= v }) > Cardinality(Surviving)

AboveMedian(v, Value(_)) ==
    2 * Cardinality({ q \in Surviving : Value(q) < v }) >= Cardinality(Surviving)

Quadrant(ordersHigh, revenueHigh) ==
    IF ordersHigh /\ revenueHigh THEN "star"
    ELSE IF ordersHigh THEN "traffic_driver"
    ELSE IF revenueHigh THEN "high_value_niche"
    ELSE "low_performer"

\* C5, as amended: the classified products are the products that survive the
\* filter, each in the one quadrant given by whether its order count and its
\* revenue are at or above the medians over the surviving products.
C5_QuadrantAtOrAboveMedian ==
    "tab3" \in executed =>
        /\ DOMAIN product_matrix = Surviving
        /\ \A p \in Surviving :
              product_matrix[p].class =
                  Quadrant(AtOrAboveMedian(OrdersOf(p), OrdersOf),
                           AtOrAboveMedian(RevenueOf(p), RevenueOf))

\* C5 as claimed: a product is in the quadrant given by whether its order count
\* and its revenue are above the medians over the surviving products.
C5_QuadrantAboveMedian ==
    "tab3" \in executed =>
        /\ DOMAIN product_matrix = Surviving
        /\ \A p \in Surviving :
              product_matrix[p].class =
                  Quadrant(AboveMedian(OrdersOf(p), OrdersOf),
                           AboveMedian(RevenueOf(p), RevenueOf))

\* C5's case: a product that the filter drops, and survivors in different quadrants
C5_Witness ==
    /\ "tab3" \in executed
    /\ PeriodProducts # Surviving
    /\ \E p, q \in DOMAIN product_matrix : product_matrix[p].class # product_matrix[q].class

\* C6: the first-purchase product of a customer is the product of a row of that
\* customer's earliest order, also when that row has no product.
C6_FirstPurchaseFromEarliestOrder ==
    "first_purchase" \in executed =>
        \A c \in DOMAIN first_purchase_analysis :
            LET seq == TimeOrder(c)
            IN  first_purchase_analysis[c].product
                  \in { seq[i].product : i \in { j \in DOMAIN seq : seq[j].order_id = seq[1].order_id } }

C8_SegmentationCompletes ==
    (selected_year # None /\ pc = "error") => "insight" \in executed

\* C9: an insufficiency of the selected period in the frequency segmentation or
\* in the retention analysis does not keep the later analyzers from running: a
\* run that has stopped there has still executed them.
C9_SiblingsStillRun ==
    (selected_year # None /\ pc = "error" /\ "retention" \notin executed) =>
        { "first_purchase", "tab2", "tab3", "tab4", "tab5" } \subseteq executed

\* C10: the retention analysis leaves the dataset as it was: the same rows in
\* the same order with the same columns.
C10_RetentionKeepsDataset ==
    [][pc = "tab1_retention" => df' = df]_vars


\* tab 2 has just computed its table, whether or not the tab went on to its end
StickinessTableBuilt ==
    pc = "tab3" \/ (pc = "error" /\ "first_purchase" \in executed /\ "tab2" \notin executed)

\* the upload without the rows whose timestamp cannot be parsed, preprocessed
DatedFrame == Preprocessed(SelectSeq(uploaded, LAMBDA r : r.timestamp # NaT))

\* the distinct orders of a customer in the upload, undated rows included
LifetimeOrders(c) ==
    { uploaded[i].order_id : i \in { j \in DOMAIN uploaded : uploaded[j].customer = c } }

\* the distinct orders of a customer among the upload's rows dated in a year
DatedOrders(c, y) ==
    { uploaded[i].order_id :
        i \in { j \in DOMAIN uploaded : /\ uploaded[j].customer = c
                                        /\ uploaded[j].timestamp # NaT
                                        /\ YearOf(uploaded[j].timestamp) = y } }

\* C11: a row whose timestamp cannot be parsed gets no year and no per-year
\* order count, and it leaves every aggregate of the selected year (frequency
\* buckets, per-year order counts, visit funnel, stickiness table, product
\* matrix) as it is without that row; yet the row stays in the dataset and its
\* order counts in the customer's lifetime number of distinct orders.  Every
\* aggregate is compared in the state that follows the step which computes it.
C11_UnparsedRowsOnlyLifetime ==
    /\ "preprocess" \in executed =>
          /\ Len(df) = Len(uploaded)
          /\ \A i \in DOMAIN uploaded :
                \E j \in DOMAIN df :
                    /\ df[j].idx = uploaded[i].idx
                    /\ df[j].customer = uploaded[i].customer
                    /\ df[j].order_id = uploaded[i].order_id
                    /\ df[j].timestamp = uploaded[i].timestamp
                    /\ df[j].product = uploaded[i].product
                    /\ df[j].amount = uploaded[i].amount
          /\ \A j \in DOMAIN df :
                IF df[j].timestamp = NaT
                  THEN df[j].year = NaN /\ df[j].annual_count = NaN
                  ELSE pc = "tab1_frequency" =>
                         df[j].annual_count
                           = Cardinality(DatedOrders(df[j].customer, df[j].year))
    /\ pc = "tab1_insight" =>
          freq_dist_display
            = FreqDistDisplay(FreqDist(MemberStats(DfYear(DatedFrame, selected_year))))
    /\ pc = "tab1_magic" =>
          LET dated == WithRates(FunnelCounts(RetentionFrame(DatedFrame), selected_year))
          IN  /\ Len(visit_funnel) = Len(dated)
              /\ \A i \in DOMAIN dated :
                    /\ visit_funnel[i].visit_index = dated[i].visit_index
                    /\ visit_funnel[i].customers = dated[i].customers
                    /\ visit_funnel[i].rate = dated[i].rate
    /\ "first_purchase" \in executed =>
          \A c \in Customers(uploaded) :
              first_purchase_analysis[c].lifetime_count = Cardinality(LifetimeOrders(c))
    /\ StickinessTableBuilt =>
          freq_table = FreqTable(DfYear(DatedFrame, selected_year))
    /\ pc = "tab4" =>
          product_matrix = ProductMatrix(DfYear(DatedFrame, selected_year))

\* an upload with an undated row whose order is counted in its customer's
\* lifetime number only, run through the funnel and a product matrix that is
\* not empty
C11_Witness ==
    /\ "tab3" \in executed
    /\ DOMAIN product_matrix # {}
    /\ Len(visit_funnel) >= 2
    /\ \E i \in DOMAIN uploaded :
          /\ uploaded[i].timestamp = NaT
          /\ uploaded[i].product \in DOMAIN product_matrix
          /\ uploaded[i].order_id
                \notin DatedOrders(uploaded[i].customer, selected_year)
          /\ first_purchase_analysis[uploaded[i].customer].lifetime_count
                > Cardinality(DatedOrders(uploaded[i].customer, selected_year))


\* a rate of 100.0%, in tenths of a percent
Hundred == 1000

\* some customer with a row in the selected year has a row dated in an earlier year
ReturningCustomer ==
    \E i, j \in DOMAIN uploaded :
        /\ uploaded[i].customer = uploaded[j].customer
        /\ uploaded[i].timestamp # NaT /\ YearOf(uploaded[i].timestamp) = selected_year
        /\ uploaded[j].timestamp # NaT /\ YearOf(uploaded[j].timestamp) < selected_year

\* C12 as stated: every rate of the funnel lies between 0% and 100%, the first
\* reported rate is exactly 100%, and no later visit index counts more
\* customers than the baseline.
C12_RatesWithinHundred ==
    "retention" \in executed =>
        /\ visit_funnel[1].rate = Hundred
        /\ \A i \in DOMAIN visit_funnel :
              /\ visit_funnel[i].rate >= 0 /\ visit_funnel[i].rate <= Hundred
              /\ visit_funnel[i].customers <= visit_funnel[1].customers

\* C12, amended: the first reported rate is exactly 100% and no rate is
\* negative; when the upload has no visit-index column of its own, so that the
\* program computes the visit index, and no customer with a row in the selected
\* year has a row dated in an earlier year, every rate is at most 100% and no
\* later visit index counts more customers than the baseline.
C12_RatesWithinHundredOfComputedIndex ==
    "retention" \in executed =>
        /\ visit_funnel[1].rate = Hundred
        /\ \A i \in DOMAIN visit_funnel : visit_funnel[i].rate >= 0
        /\ (~HasVisitColumn(uploaded) /\ ~ReturningCustomer) =>
              \A i \in DOMAIN visit_funnel :
                  /\ visit_funnel[i].rate <= Hundred
                  /\ visit_funnel[i].customers <= visit_funnel[1].customers

\* a funnel of three visits or more over a computed visit index and without
\* returning customers, whose last visit keeps fewer customers than the first
C12_Witness ==
    /\ "retention" \in executed
    /\ ~HasVisitColumn(uploaded)
    /\ ~ReturningCustomer
    /\ Len(visit_funnel) >= 3
    /\ visit_funnel[Len(visit_funnel)].rate < Hundred
    /\ visit_funnel[Len(visit_funnel)].rate > 0


\* the people of the display's bucket with a label, 0 when there is none
ShownPeople(label) ==
    SumSeq([i \in DOMAIN freq_dist_display |->
               IF freq_dist_display[i].bucket = label
                 THEN freq_dist_display[i].people ELSE 0])

\* C13: the stickiness table, grouped by the precomputed per-row count of the
\* year, and the member distribution, regrouped by customer over the year's
\* rows, give every order count the same number of customers; the display of
\* the member distribution shows that number for every count up to the cap and
\* their sum for the counts above it.
C13_FrequencyTablesAgree ==
    StickinessTableBuilt =>
        LET freq_dist == FreqDist(MemberStats(df_year))
            over == { n \in DOMAIN freq_table : n > FreqCap }
        IN  /\ DOMAIN freq_table = DOMAIN freq_dist
            /\ \A n \in DOMAIN freq_table :
                  /\ freq_table[n] = freq_dist[n].people
                  /\ freq_table[n]
                        = Cardinality({ c \in PeriodCustomers :
                                          Cardinality(DatedOrders(c, selected_year)) = n })
                  /\ n <= FreqCap => ShownPeople(Str(n)) = freq_table[n]
            /\ ShownPeople(OverflowLabel) = SumFn([n \in over |-> freq_table[n]])
            /\ Len(freq_dist_display)
                  = Cardinality(DOMAIN freq_table \ over) + (IF over = {} THEN 0 ELSE 1)

\* a stickiness table of two order counts or more, one above the cap and one
\* shared by two customers or more
C13_Witness ==
    /\ "tab2" \in executed
    /\ \E n \in DOMAIN freq_table : n > FreqCap
    /\ \E n \in DOMAIN freq_table : freq_table[n] >= 2

=============================================================================
